---- MODULE Spec2Model ----
(***************************************************************************)
(* Kada sweet-shop API: the router, the auth gate (authenticate, isAdmin), *)
(* the inventory controllers and the auth controllers, as a state machine. *)
(* A request is handled in event-loop turns: the router's middleware chain *)
(* and the controller's code up to its first await run in one turn; every  *)
(* awaited database call is one atomic step of the store, followed by the  *)
(* controller's code up to the next await.                                 *)
(***************************************************************************)
EXTENDS Integers, Sequences, FiniteSets, TLC

\* ------------------------------------------------------------------ bounds
\* ObjectIds the Inventory Store hands out in one behaviour.
MaxIds == 1
\* Largest quantity a restock may build up to (caps the stock counter).
MaxStock == 2

\* Items a stocked shop holds before its first request.
Seeded == 2

\* ------------------------------------------------------- program constants
\* jwt.sign(..., { expiresIn: '1h' }), in seconds.
TokenTTL == 3600
JWT_SECRET == "super_secret_key_123"

\* ------------------------------------------------------------ small values
None == <<>>
Some(v) == <<v>>
IsSome(o) == Len(o) = 1
Val(o) == o[1]

Slots == {1, 2}
\* The ids of the items stored before the first request are 1 - Seeded .. 0,
\* the ids handed out afterwards 1 .. MaxIds.
Ids == (1 - Seeded)..MaxIds
\* The ObjectIds: those of the stored items and one the store never hands out
\* (a new mongoose.Types.ObjectId()).
ObjectIds == (1 - Seeded)..(MaxIds + 1)
\* An :id that is no ObjectId, such as 'abc'.
MalformedId == MaxIds + 2
\* The ids a request may address: one more than the store ever hands out, and
\* the one that is no ObjectId.
RequestIds == 1..(MaxIds + 1) \cup {MalformedId}
Roles == {"user", "admin"}

\* ------------------------------------------------------------------ tokens
\* jwt.sign(payload, key, { expiresIn }) issued at time iat.
sign(payload, key, iat) == [payload |-> payload, sig |-> key, exp |-> iat + TokenTTL]

\* jwt.verify(token, key) at time now: the signature and the expiry.
verify(token, key, now) == token.sig = key /\ now < token.exp

\* ------------------------------------------------------------------ state
VARIABLES
    sweets,     \* Inventory Store: id -> None | Some(document)
    nextId,     \* the next ObjectId the Inventory Store hands out
    users,      \* Credential Store: sequence of user documents
    req         \* the requests in flight, one per slot

vars == <<sweets, nextId, users, req>>

NoRes == [error |-> "", message |-> "", data |-> <<>>]

Idle ==
    [pc |-> "idle", op |-> "", header |-> None, now |-> 0, id |-> 0,
     body |-> <<>>, user |-> None, local |-> None, status |-> 0, res |-> NoRes,
     trail |-> <<>>]

\* res.status(code).json(...): the response is sent, the request is over.
Reply(q, code, res) == [q EXCEPT !.pc = "done", !.status = code, !.res = res]
Error(q, code, msg) == Reply(q, code, [NoRes EXCEPT !.error = msg])

\* ------------------------------------------------------------- Sweet model
\* new Sweet(body): the schema's fields, quantity defaulting to 0.
NewSweet(body) ==
    [name |-> body.name, category |-> body.category, price |-> body.price,
     quantity |-> IF IsSome(body.quantity) THEN body.quantity ELSE Some(0)]

\* Schema validation of a document under construction: name, category and
\* price are required, price and quantity have min 0.
SweetValid(d) ==
    /\ IsSome(d.name) /\ IsSome(d.category) /\ IsSome(d.price)
    /\ Val(d.price) >= 0
    /\ Val(d.quantity) >= 0

\* Schema validation that save() runs on a loaded document.
DocValid(d) == d.price >= 0 /\ d.quantity >= 0

\* The stored document of a valid new Sweet.
Stored(d) ==
    [name |-> Val(d.name), category |-> Val(d.category),
     price |-> Val(d.price), quantity |-> Val(d.quantity)]

\* A stored document as the driver returns it (and as res.json sends it).
Doc(id, d) ==
    [_id |-> id, name |-> d.name, category |-> d.category,
     price |-> d.price, quantity |-> d.quantity]

\* Sweet.findById, findByIdAndUpdate and findByIdAndDelete cast the id to an
\* ObjectId first and throw a CastError when it is none; the controller's catch
\* answers with err.message.
CastError(id) == id \notin ObjectIds
CastMessage == "Cast to ObjectId failed"

\* Sweet.findById(id) against a store s, for an id that was cast.
findById(s, id) == IF id \in Ids /\ IsSome(s[id]) THEN Some(Doc(id, Val(s[id]))) ELSE None

\* The $set of an update body: only the fields the body carries change.
\* findByIdAndUpdate runs no validators (the call passes { new: true } only).
ApplyUpdate(d, body) ==
    [name     |-> IF IsSome(body.name) THEN Val(body.name) ELSE d.name,
     category |-> IF IsSome(body.category) THEN Val(body.category) ELSE d.category,
     price    |-> IF IsSome(body.price) THEN Val(body.price) ELSE d.price,
     quantity |-> IF IsSome(body.quantity) THEN Val(body.quantity) ELSE d.quantity]

\* Sweet.find(): every document, in the store's natural (insertion) order.
RECURSIVE FindFrom(_, _)
FindFrom(s, id) ==
    IF id > MaxIds THEN <<>>
    ELSE (IF IsSome(s[id]) THEN <<Doc(id, Val(s[id]))>> ELSE <<>>) \o FindFrom(s, id + 1)
FindAll(s) == FindFrom(s, 1 - Seeded)

\* --------------------------------------------------------------- auth gate
\* The value of an Authorization header as req.header returns it: a text, cut
\* into pieces where 'Bearer ' and the token begin and end.  A piece is plain
\* text, a token, or the head or the tail of a token cut in two.  No header
\* (undefined) and an empty header are both the empty sequence.
Text(s) == [text |-> s, jwt |-> None, part |-> ""]
Jwt(t) == [text |-> "", jwt |-> Some(t), part |-> "all"]
JwtHead(t) == [text |-> "", jwt |-> Some(t), part |-> "head"]
JwtTail(t) == [text |-> "", jwt |-> Some(t), part |-> "tail"]

\* 'Bearer <token>'; the token alone; 'Bearer' (the header 'Bearer ' with
\* nothing after it: node's HTTP parser drops the trailing space); and
\* '<head of the token>Bearer <tail of the token>'.
Bearer(t) == <<Text("Bearer "), Jwt(t)>>
Bare(t) == <<Jwt(t)>>
BearerOnly == <<Text("Bearer")>>
Split(t) == <<JwtHead(t), Text("Bearer "), JwtTail(t)>>

\* header.replace('Bearer ', ''): the first 'Bearer ' is removed, wherever it
\* stands.
RECURSIVE StripBearer(_)
StripBearer(h) ==
    IF h = <<>> THEN <<>>
    ELSE IF Head(h) = Text("Bearer ") THEN Tail(h)
    ELSE <<Head(h)>> \o StripBearer(Tail(h))

\* jwt.verify reads its argument as a token: the text must be one whole token.
Decode(rest) ==
    IF Len(rest) = 1 /\ rest[1].part = "all" THEN rest[1].jwt
    ELSE IF /\ Len(rest) = 2 /\ rest[1].part = "head" /\ rest[2].part = "tail"
            /\ rest[1].jwt = rest[2].jwt
         THEN rest[1].jwt
    ELSE None

\* Mutant of authenticate: the token is decoded, not verified.
authenticate_decodeOnly(q) ==
    LET rest == StripBearer(q.header)
        token == Decode(rest)
    IN  IF rest = <<>>
        THEN Error(q, 401, "Access denied. No token provided.")
        ELSE IF IsSome(token)
             THEN [q EXCEPT !.user = Some(Val(token).payload)]
             ELSE Error(q, 400, "Invalid token.")

\* middleware/auth.js authenticate: the header with the first 'Bearer '
\* removed; no header, or nothing left, is 401; what is left goes to
\* jwt.verify, which throws unless it is a token with a good signature that
\* has not expired; the payload becomes req.user.
authenticate(q) ==
    LET rest == StripBearer(q.header)
        token == Decode(rest)
    IN  IF rest = <<>>
        THEN Error(q, 401, "Access denied. No token provided.")
        ELSE IF IsSome(token) /\ verify(Val(token), JWT_SECRET, q.now)
             THEN [q EXCEPT !.user = Some(Val(token).payload)]
             ELSE Error(q, 400, "Invalid token.")

\* middleware/auth.js isAdmin.
isAdmin(q) ==
    IF Val(q.user).role # "admin"
    THEN Error(q, 403, "Access denied. Admins only.")
    ELSE q

\* ------------------------------------------------------------------ router
AdminOnly == {"addSweets", "updateSweets", "removeSweets", "restockSweets"}
UserRoutes == {"viewSweets", "searchSweets", "purchaseSweets"}
SweetOps == UserRoutes \cup AdminOnly
WithId == {"updateSweets", "removeSweets", "purchaseSweets", "restockSweets"}

\* Mutant of router: no route asks for isAdmin.
router_noAdminCheck(op) == <<"authenticate", op>>

\* Mutant of router: the controller is registered before the auth gate.
router_controllerFirst(op) ==
    IF op \in AdminOnly THEN <<op, "authenticate", "isAdmin">>
    ELSE <<op, "authenticate">>

\* routes/sweets.js: the middleware chain of each route, the controller last.
router(op) ==
    IF op \in AdminOnly THEN <<"authenticate", "isAdmin", op>>
    ELSE <<"authenticate", op>>

\* ----------------------------------- controllers, up to their first await
\* Mutant of InvalidAmount: amount == null || amount < 0, so that 0 passes.
InvalidAmount_zeroPasses(body) == ~IsSome(body.amount) \/ Val(body.amount) < 0

\* restockSweets: !amount || amount <= 0 (amount is a number or missing).
InvalidAmount(body) ==
    \/ ~IsSome(body.amount)
    \/ Val(body.amount) = 0
    \/ Val(body.amount) <= 0

restockSweets(q) ==
    IF InvalidAmount(q.body) THEN Error(q, 400, "Invalid restock amount")
    ELSE [q EXCEPT !.pc = "findById"]

purchaseSweets(q) == [q EXCEPT !.pc = "findById"]
viewSweets(q) == [q EXCEPT !.pc = "find"]
searchSweets(q) == [q EXCEPT !.pc = "find"]
addSweets(q) == [q EXCEPT !.pc = "save"]
updateSweets(q) == [q EXCEPT !.pc = "findByIdAndUpdate"]
removeSweets(q) == [q EXCEPT !.pc = "findByIdAndDelete"]

Apply(h, q) ==
    CASE h = "authenticate" -> authenticate(q)
      [] h = "isAdmin" -> isAdmin(q)
      [] h = "viewSweets" -> viewSweets(q)
      [] h = "searchSweets" -> searchSweets(q)
      [] h = "addSweets" -> addSweets(q)
      [] h = "updateSweets" -> updateSweets(q)
      [] h = "removeSweets" -> removeSweets(q)
      [] h = "purchaseSweets" -> purchaseSweets(q)
      [] h = "restockSweets" -> restockSweets(q)

\* Express runs the chain in order; a handler that answers ends it.  The
\* request's trail lists the handlers that were called, in order.
RECURSIVE Handle(_, _)
Handle(q, chain) ==
    IF chain = <<>> \/ q.pc = "done" THEN q
    ELSE Handle(Apply(Head(chain), [q EXCEPT !.trail = Append(@, Head(chain))]),
                Tail(chain))

\* ------------------------------------------------------------------ search
UpperCase == <<"A","B","C","D","E","F","G","H","I","J","K","L","M",
               "N","O","P","Q","R","S","T","U","V","W","X","Y","Z">>
LowerCase == <<"a","b","c","d","e","f","g","h","i","j","k","l","m",
               "n","o","p","q","r","s","t","u","v","w","x","y","z">>
Digits == <<"0","1","2","3","4","5","6","7","8","9">>

ToLower(c) ==
    IF \E i \in 1..26 : UpperCase[i] = c
    THEN LowerCase[CHOOSE i \in 1..26 : UpperCase[i] = c]
    ELSE c
LowerStr(t) == [i \in 1..Len(t) |-> ToLower(t[i])]

\* The regular expression p matches somewhere in t: a letter or digit of p
\* matches itself, '.' matches any character (patterns are drawn from these).
Contains(t, p) ==
    \E k \in 0..(Len(t) - Len(p)) : \A i \in 1..Len(p) : p[i] = "." \/ t[k + i] = p[i]

\* { $regex: name, $options: 'i' }: the text is used as the pattern, unescaped.
RegexI(pattern, text) == Contains(LowerStr(text), LowerStr(pattern))

\* Number(text) for a string of decimal digits.
RECURSIVE Number(_)
Number(t) ==
    IF t = <<>> THEN 0
    ELSE 10 * Number(SubSeq(t, 1, Len(t) - 1))
         + ((CHOOSE i \in 1..10 : Digits[i] = t[Len(t)]) - 1)

\* The filter searchSweets builds from req.query; an empty string is falsy.
Matches(d, query) ==
    /\ (query.name # <<>> => RegexI(query.name, d.name))
    /\ (query.category # "" => d.category = query.category)
    /\ (query.minPrice # <<>> => d.price >= Number(query.minPrice))
    /\ (query.maxPrice # <<>> => d.price <= Number(query.maxPrice))

\* ------------------------------------------------- the router's entry turn
InFlight(op) == Cardinality({s \in Slots : req[s].op = op /\ req[s].pc \notin {"idle", "done"}})

\* A request as it stands after the turn it arrives in: the chain and the
\* controller's code up to its first await have run.
Received(op, header, now, id, body) ==
    Handle([Idle EXCEPT !.pc = "received", !.op = op, !.header = header,
                        !.now = now, !.id = id, !.body = body],
           router(op))

\* A request arrives on the first free slot (slots are interchangeable).
Accept(r, q) ==
    /\ req[r].pc = "idle"
    /\ \A s \in Slots : req[s].pc = "idle" => r <= s
    /\ q.op = "addSweets" => nextId + InFlight("addSweets") <= MaxIds
    /\ req' = [req EXCEPT ![r] = q]
    /\ UNCHANGED <<sweets, nextId, users>>

Dispatch(r, op, header, now, id, body) == Accept(r, Received(op, header, now, id, body))

\* The response has left; the slot is free again.
Respond(r) ==
    /\ req[r].pc = "done"
    /\ req' = [req EXCEPT ![r] = Idle]
    /\ UNCHANGED <<sweets, nextId, users>>

\* ------------------------------------------- controllers, after each await
At(r, op, pc) == req[r].op = op /\ req[r].pc = pc

viewSweets_find(r) ==
    /\ At(r, "viewSweets", "find")
    /\ req' = [req EXCEPT ![r] = Reply(@, 200, [NoRes EXCEPT !.data = FindAll(sweets)])]
    /\ UNCHANGED <<sweets, nextId, users>>

searchSweets_find(r) ==
    /\ At(r, "searchSweets", "find")
    /\ req' = [req EXCEPT ![r] =
                 Reply(@, 200, [NoRes EXCEPT !.data =
                     SelectSeq(FindAll(sweets), LAMBDA d : Matches(d, req[r].body))])]
    /\ UNCHANGED <<sweets, nextId, users>>

\* Mutant of addSweets_save: the catch answers 500, as the other
\* controllers' catches do.
addSweets_save_catch500(r) ==
    /\ req[r].op = "addSweets" /\ req[r].pc = "save"
    /\ LET d == NewSweet(req[r].body)
       IN  IF SweetValid(d)
           THEN /\ sweets' = [sweets EXCEPT ![nextId] = Some(Stored(d))]
                /\ nextId' = nextId + 1
                /\ req' = [req EXCEPT ![r] =
                             Reply(@, 201, [NoRes EXCEPT !.data = <<Doc(nextId, Stored(d))>>])]
           ELSE /\ req' = [req EXCEPT ![r] = Error(@, 500, "Sweet validation failed")]
                /\ UNCHANGED <<sweets, nextId>>
    /\ UNCHANGED users

addSweets_save(r) ==
    /\ At(r, "addSweets", "save")
    /\ LET d == NewSweet(req[r].body)
       IN  IF SweetValid(d)
           THEN /\ sweets' = [sweets EXCEPT ![nextId] = Some(Stored(d))]
                /\ nextId' = nextId + 1
                /\ req' = [req EXCEPT ![r] =
                             Reply(@, 201, [NoRes EXCEPT !.data = <<Doc(nextId, Stored(d))>>])]
           ELSE /\ req' = [req EXCEPT ![r] = Error(@, 400, "Sweet validation failed")]
                /\ UNCHANGED <<sweets, nextId>>
    /\ UNCHANGED users

\* Mutant of updateSweets_findByIdAndUpdate: without { new: true } the
\* document is returned as it was before the update.
updateSweets_returnsOld(r) ==
    /\ req[r].op = "updateSweets" /\ req[r].pc = "findByIdAndUpdate"
    /\ LET id == req[r].id
           found == findById(sweets, id)
       IN  IF CastError(id)
           THEN /\ req' = [req EXCEPT ![r] = Error(@, 400, CastMessage)]
                /\ UNCHANGED sweets
           ELSE IF ~IsSome(found)
           THEN /\ req' = [req EXCEPT ![r] = Error(@, 404, "Sweet not found")]
                /\ UNCHANGED sweets
           ELSE /\ sweets' = [sweets EXCEPT ![id] = Some(ApplyUpdate(Val(@), req[r].body))]
                /\ req' = [req EXCEPT ![r] =
                             Reply(@, 200, [NoRes EXCEPT !.data = <<Val(found)>>])]
    /\ UNCHANGED <<nextId, users>>

updateSweets_findByIdAndUpdate(r) ==
    /\ At(r, "updateSweets", "findByIdAndUpdate")
    /\ LET id == req[r].id
           found == findById(sweets, id)
       IN  IF CastError(id)
           THEN /\ req' = [req EXCEPT ![r] = Error(@, 400, CastMessage)]
                /\ UNCHANGED sweets
           ELSE IF ~IsSome(found)
           THEN /\ req' = [req EXCEPT ![r] = Error(@, 404, "Sweet not found")]
                /\ UNCHANGED sweets
           ELSE LET d == ApplyUpdate(Val(sweets[id]), req[r].body)
                IN  /\ sweets' = [sweets EXCEPT ![id] = Some(d)]
                    /\ req' = [req EXCEPT ![r] =
                                 Reply(@, 200, [NoRes EXCEPT !.data = <<Doc(id, d)>>])]
    /\ UNCHANGED <<nextId, users>>

\* Mutant of removeSweets_findByIdAndDelete: findById in place of
\* findByIdAndDelete, so the item stays.
removeSweets_keepsItem(r) ==
    /\ req[r].op = "removeSweets" /\ req[r].pc = "findByIdAndDelete"
    /\ req' = [req EXCEPT ![r] =
                 IF CastError(req[r].id) THEN Error(@, 500, CastMessage)
                 ELSE IF ~IsSome(findById(sweets, req[r].id)) THEN Error(@, 404, "Sweet not found")
                 ELSE Reply(@, 200, [NoRes EXCEPT !.message = "Sweet deleted successfully"])]
    /\ UNCHANGED <<sweets, nextId, users>>

removeSweets_findByIdAndDelete(r) ==
    /\ At(r, "removeSweets", "findByIdAndDelete")
    /\ LET id == req[r].id
       IN  IF CastError(id)
           THEN /\ req' = [req EXCEPT ![r] = Error(@, 500, CastMessage)]
                /\ UNCHANGED sweets
           ELSE IF ~IsSome(findById(sweets, id))
           THEN /\ req' = [req EXCEPT ![r] = Error(@, 404, "Sweet not found")]
                /\ UNCHANGED sweets
           ELSE /\ sweets' = [sweets EXCEPT ![id] = None]
                /\ req' = [req EXCEPT ![r] =
                             Reply(@, 200, [NoRes EXCEPT !.message = "Sweet deleted successfully"])]
    /\ UNCHANGED <<nextId, users>>

\* sweet.save() of a loaded document whose quantity was changed: validation,
\* then a $set of the quantity on the stored document, which must still exist.
\* Answers the error, or "" with the store after the write.
SaveError(s, d) ==
    IF ~DocValid(d) THEN "Sweet validation failed"
    ELSE IF ~IsSome(findById(s, d._id)) THEN "No document found for query"
    ELSE ""
\* Mutant of SaveQuantity: the write is lost.
SaveQuantity_lost(s, d) == s

\* Mutant of SaveQuantity: the write is { $inc: { quantity: -1 } } on the
\* stored document.
SaveQuantity_decrement(s, d) == [s EXCEPT ![d._id] = Some([Val(@) EXCEPT !.quantity = @ - 1])]

SaveQuantity(s, d) == [s EXCEPT ![d._id] = Some([Val(@) EXCEPT !.quantity = d.quantity])]

purchaseSweets_findById(r) ==
    /\ At(r, "purchaseSweets", "findById")
    /\ LET sweet == findById(sweets, req[r].id)
       IN  req' = [req EXCEPT ![r] =
                 IF CastError(req[r].id) THEN Error(@, 500, CastMessage)
                 ELSE IF ~IsSome(sweet) THEN Error(@, 404, "Sweet not found")
                 ELSE IF Val(sweet).quantity < 1 THEN Error(@, 400, "Out of stock")
                 ELSE [@ EXCEPT !.pc = "save",
                                !.local = Some([Val(sweet) EXCEPT !.quantity = @ - 1])]]
    /\ UNCHANGED <<sweets, nextId, users>>

purchaseSweets_save(r) ==
    /\ At(r, "purchaseSweets", "save")
    /\ LET sweet == Val(req[r].local)
           err == SaveError(sweets, sweet)
       IN  IF err # ""
           THEN /\ req' = [req EXCEPT ![r] = Error(@, 500, err)]
                /\ UNCHANGED sweets
           ELSE /\ sweets' = SaveQuantity(sweets, sweet)
                /\ req' = [req EXCEPT ![r] =
                             Reply(@, 200, [NoRes EXCEPT !.message = "Purchase successful",
                                                         !.data = <<sweet.quantity>>])]
    /\ UNCHANGED <<nextId, users>>

restockSweets_findById(r) ==
    /\ At(r, "restockSweets", "findById")
    /\ LET sweet == findById(sweets, req[r].id)
           amount == Val(req[r].body.amount)
       IN  /\ IsSome(sweet) => Val(sweet).quantity + amount <= MaxStock
           /\ req' = [req EXCEPT ![r] =
                 IF CastError(req[r].id) THEN Error(@, 500, CastMessage)
                 ELSE IF ~IsSome(sweet) THEN Error(@, 404, "Sweet not found")
                 ELSE [@ EXCEPT !.pc = "save",
                                !.local = Some([Val(sweet) EXCEPT !.quantity = @ + amount])]]
    /\ UNCHANGED <<sweets, nextId, users>>

restockSweets_save(r) ==
    /\ At(r, "restockSweets", "save")
    /\ LET sweet == Val(req[r].local)
           err == SaveError(sweets, sweet)
       IN  IF err # ""
           THEN /\ req' = [req EXCEPT ![r] = Error(@, 500, err)]
                /\ UNCHANGED sweets
           ELSE /\ sweets' = SaveQuantity(sweets, sweet)
                /\ req' = [req EXCEPT ![r] =
                             Reply(@, 200, [NoRes EXCEPT !.message = "Restock successful",
                                                         !.data = <<sweet.quantity>>])]
    /\ UNCHANGED <<nextId, users>>

\* ------------------------------------------------------ the requests tried
Fudge == <<"F", "u", "d", "g", "e">>
NoFields == [name |-> None, category |-> None, price |-> None, quantity |-> None]

AddBodies ==
    { [NoFields EXCEPT !.name = Some(Fudge), !.category = Some("Choco"),
                       !.price = Some(5), !.quantity = Some(2)],
      [NoFields EXCEPT !.name = Some(Fudge), !.category = Some("Choco"),
                       !.price = Some(5)],
      [NoFields EXCEPT !.name = Some(Fudge), !.price = Some(5)],
      [NoFields EXCEPT !.name = Some(Fudge), !.category = Some("Choco"),
                       !.price = Some(-1), !.quantity = Some(2)] }

UpdateBodies ==
    { [NoFields EXCEPT !.quantity = Some(1)],
      [NoFields EXCEPT !.price = Some(-1)],
      [NoFields EXCEPT !.quantity = Some(-1)] }

RestockBodies == { [amount |-> a] : a \in {None, Some(-1), Some(0), Some(1), Some(2)} }

NoQuery == [name |-> <<>>, category |-> "", minPrice |-> <<>>, maxPrice |-> <<>>]
Queries ==
    { [NoQuery EXCEPT !.name = <<"f", "U", "d">>],
      [NoQuery EXCEPT !.category = "Choco", !.minPrice = <<"5">>, !.maxPrice = <<"1", "0">>] }

NoBody == [none |-> TRUE]
BodiesOf(op) ==
    CASE op = "addSweets" -> AddBodies
      [] op = "updateSweets" -> UpdateBodies
      [] op = "restockSweets" -> RestockBodies
      [] op = "searchSweets" -> Queries
      [] OTHER -> {NoBody}

\* Every request is made at the end of the first hour.
Times == {TokenTTL}
\* Tokens: for either role, signed with the secret within the last hour; for
\* an admin, signed with another key; for an admin, issued an hour ago.
Payload(ro) == [id |-> 1, role |-> ro]
Tokens ==
    { sign(Payload("user"), JWT_SECRET, TokenTTL),
      sign(Payload("admin"), JWT_SECRET, TokenTTL),
      sign(Payload("admin"), "forged", TokenTTL),
      sign(Payload("admin"), JWT_SECRET, 0) }
\* Authorization headers: none, 'Bearer ' with nothing after it, 'Bearer <token>'
\* for every token, and a user's valid token without 'Bearer ' and with
\* 'Bearer ' inside it.
UserHeader == Bearer(sign(Payload("user"), JWT_SECRET, TokenTTL))
AdminHeader == Bearer(sign(Payload("admin"), JWT_SECRET, TokenTTL))
BareUser == Bare(sign(Payload("user"), JWT_SECRET, TokenTTL))
SplitUser == Split(sign(Payload("user"), JWT_SECRET, TokenTTL))
Headers == {None, BearerOnly, BareUser, SplitUser} \cup { Bearer(t) : t \in Tokens }
\* The headers that are not 'Bearer <token>' are tried on one route of either
\* kind, the others and the missing header on every route.
RoutesFor(header) ==
    IF header \in {BareUser, SplitUser, BearerOnly} THEN {"viewSweets", "addSweets"} ELSE SweetOps

\* Callers that hold a token the route is meant for are tried with every id of
\* the route, and with every body on the ids the store hands out; on the two
\* ids that never have an item (the ObjectId never handed out and the id that
\* is no ObjectId) with one body that passes the checks made before the lookup.
\* All other callers are tried with one body and one id.
Entitled(op) == IF op \in AdminOnly THEN {AdminHeader} ELSE {UserHeader}
PassingBody(op) ==
    CASE op = "restockSweets" -> [amount |-> Some(1)]
      [] op = "updateSweets" -> [NoFields EXCEPT !.quantity = Some(1)]
      [] OTHER -> CHOOSE b \in BodiesOf(op) : TRUE
BodiesFor(op, header, id) ==
    IF header \notin Entitled(op) THEN {CHOOSE b \in BodiesOf(op) : TRUE}
    ELSE IF id \in {MaxIds + 1, MalformedId} THEN {PassingBody(op)}
    ELSE BodiesOf(op)
IdsFor(op, header) ==
    IF op \notin WithId THEN {0}
    ELSE IF header \in Entitled(op) THEN RequestIds
    ELSE {1}

\* ----------------------------------------------------------- specification
Init ==
    /\ sweets = [i \in Ids |-> None]
    /\ nextId = 1
    /\ users = <<>>
    /\ req = [r \in Slots |-> Idle]

\* The requests tried, each after the turn it arrives in.
Arrivals ==
    UNION { UNION { UNION { { Received(op, header, now, id, body) :
                                  body \in BodiesFor(op, header, id), now \in Times } :
                            id \in IdsFor(op, header) } :
                    op \in RoutesFor(header) } :
            header \in Headers }

Arrive(r) == \E q \in Arrivals : Accept(r, q)

Step(r) ==
    \/ viewSweets_find(r)
    \/ searchSweets_find(r)
    \/ addSweets_save(r)
    \/ updateSweets_findByIdAndUpdate(r)
    \/ removeSweets_findByIdAndDelete(r)
    \/ purchaseSweets_findById(r)
    \/ purchaseSweets_save(r)
    \/ restockSweets_findById(r)
    \/ restockSweets_save(r)

Answered == \E s \in Slots : req[s].pc = "done"

\* Requests overlap: any slot may take its next turn.  A response that is
\* ready leaves before anything else happens (it touches nothing shared).
Next ==
    \E r \in Slots :
        \/ Answered /\ Respond(r)
        \/ ~Answered /\ Arrive(r)
        \/ ~Answered /\ Step(r)

Spec == Init /\ [][Next]_vars

\* Requests one after the other: a request arrives only when none is in flight.
SeqNext ==
    \E r \in Slots :
        \/ Respond(r)
        \/ (\A s \in Slots : req[s].pc = "idle") /\ Arrive(r)
        \/ Step(r)

SeqSpec == Init /\ [][SeqNext]_vars

\* Purchases and restocks racing on one stocked item: the store holds one
\* valid item, and only purchase and restock requests arrive.
StockInit ==
    /\ \E n \in 0..MaxStock :
         sweets = [i \in Ids |-> IF i = 1
                                 THEN Some([name |-> Fudge, category |-> "Choco",
                                            price |-> 5, quantity |-> n])
                                 ELSE None]
    /\ nextId = 2
    /\ users = <<>>
    /\ req = [r \in Slots |-> Idle]

StockArrive(r) ==
    \E op \in {"purchaseSweets", "restockSweets"}, header \in Entitled("restockSweets") :
        \E body \in {b \in BodiesOf(op) : op = "restockSweets" => ~InvalidAmount(b)} :
            Dispatch(r, op, header, TokenTTL, 1, body)

StockNext ==
    \E r \in Slots :
        \/ Answered /\ Respond(r)
        \/ ~Answered /\ StockArrive(r)
        \/ ~Answered /\ purchaseSweets_findById(r)
        \/ ~Answered /\ purchaseSweets_save(r)
        \/ ~Answered /\ restockSweets_findById(r)
        \/ ~Answered /\ restockSweets_save(r)

StockSpec == StockInit /\ [][StockNext]_vars

\* A stocked shop: the store holds Seeded items, and an admin lists, searches,
\* adds, updates and removes while other such requests are in flight.
Mint == <<"M", "i", "n", "t">>
Kaju == <<"K", "a", "j", "u">>
Catalogue ==
    <<[name |-> Fudge, category |-> "Choco", price |-> 5, quantity |-> 2],
      [name |-> Mint, category |-> "Candy", price |-> 0, quantity |-> 0]>>

ShopInit ==
    /\ sweets = [i \in Ids |-> IF i <= 0 THEN Some(Catalogue[i + Seeded]) ELSE None]
    /\ nextId = 1
    /\ users = <<>>
    /\ req = [r \in Slots |-> Idle]

ShopOps == {"viewSweets", "searchSweets", "addSweets", "updateSweets", "removeSweets"}
\* The ids addressed: every id of the store and one it never hands out.
ShopIds == Ids \cup {MaxIds + 1, MalformedId}

ShopAddBodies ==
    AddBodies \cup
    { [NoFields EXCEPT !.category = Some("Choco"), !.price = Some(5)],
      [NoFields EXCEPT !.name = Some(Fudge), !.category = Some("Choco")] }
ShopUpdateBodies ==
    { [NoFields EXCEPT !.name = Some(Kaju), !.price = Some(7)],
      [NoFields EXCEPT !.quantity = Some(0)],
      NoFields }
\* req.query of a search: no filter, a name in another case, a name of
\* pattern characters, a category, the bounds 0 and 5, all filters at once.
ShopQueries ==
    Queries \cup
    { NoQuery,
      [NoQuery EXCEPT !.name = <<".">>],
      [NoQuery EXCEPT !.category = "Choco"],
      [NoQuery EXCEPT !.minPrice = <<"0">>],
      [NoQuery EXCEPT !.maxPrice = <<"0">>],
      [NoQuery EXCEPT !.minPrice = <<"5">>, !.maxPrice = <<"5">>] }
ShopBodies(op) ==
    CASE op = "addSweets" -> ShopAddBodies
      [] op = "updateSweets" -> ShopUpdateBodies
      [] op = "searchSweets" -> ShopQueries
      [] OTHER -> {NoBody}

ShopArrive(r) ==
    \E op \in ShopOps, header \in Entitled("addSweets") :
        \E id \in (IF op \in WithId THEN ShopIds ELSE {0}), body \in ShopBodies(op) :
            Dispatch(r, op, header, TokenTTL, id, body)

ShopNext ==
    \E r \in Slots :
        \/ Answered /\ Respond(r)
        \/ ~Answered /\ ShopArrive(r)
        \/ ~Answered /\ viewSweets_find(r)
        \/ ~Answered /\ searchSweets_find(r)
        \/ ~Answered /\ addSweets_save(r)
        \/ ~Answered /\ updateSweets_findByIdAndUpdate(r)
        \/ ~Answered /\ removeSweets_findByIdAndDelete(r)

ShopSpec == ShopInit /\ [][ShopNext]_vars

\* The same race with responses that may wait: a slot stays taken until its
\* response has left, so two answered calls can be seen side by side.
RaceNext ==
    \E r \in Slots :
        \/ Respond(r)
        \/ StockArrive(r)
        \/ purchaseSweets_findById(r)
        \/ purchaseSweets_save(r)
        \/ restockSweets_findById(r)
        \/ restockSweets_save(r)

RaceSpec == StockInit /\ [][RaceNext]_vars

\* ============================================================ auth service
\* ---------------------------------------------------------------- User model
\* The pre-save hook stores bcrypt's hash of the password, never the password.
Hash(password) == <<"$2a$10$", password>>
\* user.comparePassword(candidate): bcrypt.compare against the stored hash.
comparePassword(user, candidate) == Hash(candidate) = user.password

\* new User({ username, email, password, role }): role defaults to "user".
NewUser(body) ==
    [username |-> body.username, email |-> body.email, password |-> body.password,
     role |-> IF IsSome(body.role) THEN body.role ELSE Some("user")]

\* Schema validation: username, email and password required, role in the enum.
UserValid(u) ==
    /\ IsSome(u.username) /\ IsSome(u.email) /\ IsSome(u.password)
    /\ Val(u.role) \in Roles

\* User.findOne({ email }) against a credential store us.
findOne(us, email) ==
    IF \E i \in 1..Len(us) : us[i].email = email
    THEN Some(us[CHOOSE i \in 1..Len(us) : us[i].email = email])
    ELSE None

\* The unique index on email: an insert of a stored email is refused.
DuplicateKey(us, email) == \E i \in 1..Len(us) : us[i].email = email

\* -------------------------------- controllers/auth.js, up to the first await
register(q) == [q EXCEPT !.pc = "findOne"]
login(q) == [q EXCEPT !.pc = "findOne"]

\* routes/auth.js: no middleware before register and login.
AuthDispatch(r, op, now, body) ==
    /\ req[r].pc = "idle"
    /\ \A s \in Slots : req[s].pc = "idle" => r <= s
    /\ LET q == [Idle EXCEPT !.pc = "received", !.op = op, !.now = now, !.body = body]
       IN  req' = [req EXCEPT ![r] = IF op = "register" THEN register(q) ELSE login(q)]
    /\ UNCHANGED <<sweets, nextId, users>>

\* ------------------------------------ controllers/auth.js, after each await
\* register, after User.findOne({ email }).
register_findOne(r) ==
    /\ At(r, "register", "findOne")
    /\ req' = [req EXCEPT ![r] =
                 IF IsSome(findOne(users, Val(req[r].body.email)))
                 THEN Error(@, 400, "Email already exists")
                 ELSE [@ EXCEPT !.pc = "save", !.local = Some(NewUser(req[r].body))]]
    /\ UNCHANGED <<sweets, nextId, users>>

\* Mutant of register_save: the catch answers 500, as login's catch does.
register_save_catch500(r) ==
    /\ req[r].op = "register" /\ req[r].pc = "save"
    /\ LET user == Val(req[r].local)
       IN  IF ~UserValid(user) \/ DuplicateKey(users, Val(user.email))
           THEN /\ req' = [req EXCEPT ![r] = Error(@, 500, "save failed")]
                /\ UNCHANGED users
           ELSE /\ users' = Append(users,
                        [_id |-> Len(users) + 1, username |-> Val(user.username),
                         email |-> Val(user.email), password |-> Hash(Val(user.password)),
                         role |-> Val(user.role)])
                /\ req' = [req EXCEPT ![r] =
                             Reply(@, 201, [NoRes EXCEPT !.message = "User registered successfully"])]
    /\ UNCHANGED <<sweets, nextId>>

\* register, user.save(): validation, the hash, the insert; the catch answers 400.
register_save(r) ==
    /\ At(r, "register", "save")
    /\ LET user == Val(req[r].local)
       IN  IF ~UserValid(user)
           THEN /\ req' = [req EXCEPT ![r] = Error(@, 400, "User validation failed")]
                /\ UNCHANGED users
           ELSE IF DuplicateKey(users, Val(user.email))
           THEN /\ req' = [req EXCEPT ![r] = Error(@, 400, "E11000 duplicate key error")]
                /\ UNCHANGED users
           ELSE /\ users' = Append(users,
                        [_id |-> Len(users) + 1, username |-> Val(user.username),
                         email |-> Val(user.email), password |-> Hash(Val(user.password)),
                         role |-> Val(user.role)])
                /\ req' = [req EXCEPT ![r] =
                             Reply(@, 201, [NoRes EXCEPT !.message = "User registered successfully"])]
    /\ UNCHANGED <<sweets, nextId>>

\* login, after User.findOne({ email }): no user is 401; a user found is
\* handed to comparePassword, which is awaited.
login_findOne(r) ==
    /\ At(r, "login", "findOne")
    /\ LET user == findOne(users, req[r].body.email)
       IN  req' = [req EXCEPT ![r] =
                 IF ~IsSome(user) THEN Error(@, 401, "Invalid credentials")
                 ELSE [@ EXCEPT !.pc = "comparePassword", !.local = user]]
    /\ UNCHANGED <<sweets, nextId, users>>

\* Seconds between a login's arrival and its jwt.sign.
Elapsed == {0, 1}

\* Mutant of login_comparePassword: the password is not compared.
login_noCompare(r) ==
    /\ req[r].op = "login" /\ req[r].pc = "comparePassword"
    /\ \E dt \in Elapsed :
         LET user == Val(req[r].local)
         IN  req' = [req EXCEPT ![r] =
                 Reply(@, 200, [NoRes EXCEPT !.data =
                        <<sign([id |-> user._id, role |-> user.role],
                               JWT_SECRET, req[r].now + dt)>>])]
    /\ UNCHANGED <<sweets, nextId, users>>

\* login, after user.comparePassword(password): a mismatch is 401, a match is
\* answered with a token signed now for the user that findOne returned.
login_comparePassword(r) ==
    /\ At(r, "login", "comparePassword")
    /\ \E dt \in Elapsed :
         LET user == Val(req[r].local)
         IN  req' = [req EXCEPT ![r] =
                 IF ~comparePassword(user, req[r].body.password)
                 THEN Error(@, 401, "Invalid credentials")
                 ELSE Reply(@, 200, [NoRes EXCEPT !.data =
                        <<sign([id |-> user._id, role |-> user.role],
                               JWT_SECRET, req[r].now + dt)>>])]
    /\ UNCHANGED <<sweets, nextId, users>>

\* ------------------------------------------------------ the requests tried
Emails == {"a@kada.in", "b@kada.in"}
Passwords == {"pw1", "pw2"}
RegisterBodies ==
    { [username |-> Some("kada"), email |-> Some(e), password |-> Some(p), role |-> ro] :
        e \in Emails, p \in Passwords, ro \in {None, Some("user"), Some("admin")} }
    \cup { [username |-> Some("kada"), email |-> Some("a@kada.in"), password |-> None,
            role |-> None] }
LoginBodies == { [email |-> e, password |-> p] : e \in Emails, p \in Passwords }

AuthArrive(r) ==
    \/ \E body \in RegisterBodies : AuthDispatch(r, "register", TokenTTL, body)
    \/ \E body \in LoginBodies : AuthDispatch(r, "login", TokenTTL, body)

AuthNext ==
    \E r \in Slots :
        \/ Answered /\ Respond(r)
        \/ ~Answered /\ AuthArrive(r)
        \/ ~Answered /\ register_findOne(r)
        \/ ~Answered /\ register_save(r)
        \/ ~Answered /\ login_findOne(r)
        \/ ~Answered /\ login_comparePassword(r)

AuthSpec == Init /\ [][AuthNext]_vars

\* ================================================================== claims
Exists(id) == id \in Ids /\ IsSome(sweets[id])
Quantity(id) == Val(sweets[id]).quantity
Moved(r) == req'[r] # req[r]
Done(r) == req[r].pc = "done"

\* C1: every stored item has quantity >= 0 and price >= 0 in every reachable
\* state.  (Violated: an admin update carrying a negative price or quantity is
\* stored as it is.)
C1_NonNegativeStock ==
    \A id \in Ids : Exists(id) => Quantity(id) >= 0 /\ Val(sweets[id]).price >= 0

\* C2: with requests one after the other, a purchase of an item with quantity
\* N >= 1 succeeds and lowers the quantity by one (so N purchases leave 0), and
\* a purchase at quantity 0 fails with 400 'Out of stock' and leaves 0.
\* (Violated: once an update has stored a negative price, save() rejects the
\* purchase and the answer is 500.)
C2_PurchaseUntilEmpty ==
    [][\A r \in Slots :
        /\ (At(r, "purchaseSweets", "findById") /\ Moved(r) /\ Exists(req[r].id)
                /\ Quantity(req[r].id) >= 0)
            => IF Quantity(req[r].id) >= 1
               THEN req'[r].pc = "save"
               ELSE /\ req'[r].pc = "done" /\ req'[r].status = 400
                    /\ req'[r].res.error = "Out of stock"
                    /\ Quantity(req[r].id)' = 0
        /\ (At(r, "purchaseSweets", "save") /\ Moved(r))
            => /\ req'[r].status = 200
               /\ Quantity(req[r].id)' = Quantity(req[r].id) - 1
    ]_vars

\* C3: under any interleaving of purchases and restocks on one item, every
\* successful purchase lowers the stored quantity by exactly 1.  (Violated:
\* two purchases that both read the quantity before either writes store the
\* same value.)
C3_PurchaseAtomic ==
    [][\A r \in Slots :
        (At(r, "purchaseSweets", "save") /\ Moved(r) /\ req'[r].status = 200)
            => Quantity(req[r].id)' = Quantity(req[r].id) - 1
    ]_vars

\* C4: with requests one after the other, a successful purchase on quantity Q
\* stores Q-1, a successful restock of amount A stores Q+A, and the returned
\* currentStock is the stored quantity.
C4_ReturnedStockIsStored ==
    [][\A r \in Slots :
        /\ (At(r, "purchaseSweets", "save") /\ Moved(r) /\ req'[r].status = 200)
            => /\ Quantity(req[r].id)' = Quantity(req[r].id) - 1
               /\ req'[r].res.data = <<Quantity(req[r].id)'>>
        /\ (At(r, "restockSweets", "save") /\ Moved(r) /\ req'[r].status = 200)
            => /\ Quantity(req[r].id)' = Quantity(req[r].id) + Val(req[r].body.amount)
               /\ req'[r].res.data = <<Quantity(req[r].id)'>>
    ]_vars

\* C4 witness: a restock of 2 answered 200 with the stock now stored.
C4_Witness ==
    \E r \in Slots :
        /\ Done(r) /\ req[r].op = "restockSweets" /\ req[r].status = 200
        /\ req[r].body.amount = Some(2)
        /\ req[r].res.data = <<Quantity(req[r].id)>>

AdminCall(q) == IsSome(q.user) /\ Val(q.user).role = "admin"
MissingZeroOrNegative(body) == body.amount = None \/ Val(body.amount) <= 0

\* C5: a restock call (past the auth gate) whose amount is missing, zero or
\* negative is answered 400 'Invalid restock amount' in its first turn and
\* changes no item.
C5_InvalidAmountRejected ==
    [][\A r \in Slots :
        (Moved(r) /\ req'[r].op = "restockSweets" /\ AdminCall(req'[r])
                /\ MissingZeroOrNegative(req'[r].body))
            => /\ req'[r].pc = "done" /\ req'[r].status = 400
               /\ req'[r].res.error = "Invalid restock amount"
               /\ sweets' = sweets
    ]_vars

\* C5 witness: a restock with amount 0 on an existing item, answered 400.
C5_Witness ==
    \E r \in Slots :
        /\ Done(r) /\ req[r].op = "restockSweets" /\ req[r].status = 400
        /\ req[r].body.amount = Some(0) /\ AdminCall(req[r]) /\ Exists(req[r].id)

\* The request carries no token: no Authorization header, or one with nothing
\* after 'Bearer '.
NoToken(q) == \A k \in 1..Len(q.header) : q.header[k].jwt = None
TokenOf(q) == Val(q.header[CHOOSE k \in 1..Len(q.header) : q.header[k].jwt # None].jwt)
\* The header is a token that verifies, alone, after 'Bearer ', or around it.
ValidToken(q) ==
    /\ ~NoToken(q)
    /\ q.header \in {Bearer(TokenOf(q)), Bare(TokenOf(q)), Split(TokenOf(q))}
    /\ verify(TokenOf(q), JWT_SECRET, q.now)

\* C6: a request without a token is answered 401 on every route, and a request
\* with a valid non-admin token is answered 403 on every admin-only route.
\* (Violated: the header 'Bearer ' with nothing after it arrives as 'Bearer',
\* which is verified as if it were a token and answered 400.)
C6_GateStatus ==
    \A r \in Slots : req[r].pc # "idle" =>
        /\ NoToken(req[r]) => Done(r) /\ req[r].status = 401
        /\ (ValidToken(req[r]) /\ TokenOf(req[r]).payload.role # "admin"
                /\ req[r].op \in AdminOnly)
            => Done(r) /\ req[r].status = 403

\* What holds of C6: a request without an Authorization header is answered
\* 401 on every route, and a request with a valid non-admin token is answered
\* 403 on every admin-only route.
C6_GateStatusNoHeader ==
    \A r \in Slots : req[r].pc # "idle" =>
        /\ req[r].header = None => Done(r) /\ req[r].status = 401
        /\ (ValidToken(req[r]) /\ TokenOf(req[r]).payload.role # "admin"
                /\ req[r].op \in AdminOnly)
            => Done(r) /\ req[r].status = 403

\* A restock by a valid non-admin token, answered 403.
C6_Witness ==
    \E r \in Slots :
        /\ Done(r) /\ req[r].op = "restockSweets" /\ req[r].status = 403
        /\ ValidToken(req[r]) /\ TokenOf(req[r]).payload.role = "user"

BadToken(q) == ~NoToken(q) /\ ~ValidToken(q)

\* C7 as claimed: a token that fails verification is answered 401.
C7_BadToken401 ==
    \A r \in Slots : (req[r].pc # "idle" /\ BadToken(req[r]))
        => Done(r) /\ req[r].status = 401

\* C7 amended: a token that fails verification (bad signature or expired) is
\* answered 400 'Invalid token.', not the 401 of a missing token, and the
\* service operation is not run.
C7_BadToken400 ==
    \A r \in Slots : (req[r].pc # "idle" /\ BadToken(req[r]))
        => /\ Done(r) /\ req[r].status = 400
           /\ req[r].res.error = "Invalid token."
           /\ req[r].user = None

\* C7 witness: an expired token signed with the secret, answered 400.
C7_Witness ==
    \E r \in Slots :
        /\ Done(r) /\ req[r].status = 400 /\ BadToken(req[r])
        /\ TokenOf(req[r]).sig = JWT_SECRET

Lookup == {"findById", "findByIdAndUpdate", "findByIdAndDelete"}

\* C8: purchase, restock (valid amount), update and remove addressed to an id
\* with no item are answered 404 'Sweet not found' and leave the store as it
\* was: nothing is created.  (Violated: an id that is no ObjectId has no item
\* either, and is answered 500, or 400 by update.)
C8_NotFound ==
    [][\A r \in Slots :
        (req[r].op \in WithId /\ req[r].pc \in Lookup /\ Moved(r)
                /\ ~Exists(req[r].id))
            => /\ req'[r].pc = "done" /\ req'[r].status = 404
               /\ req'[r].res.error = "Sweet not found"
               /\ sweets' = sweets /\ nextId' = nextId
    ]_vars

\* What holds of the four operations on an id with no item: the store is left
\* as it was, and the answer is 404 'Sweet not found' when the id is an
\* ObjectId, 400 from update and 500 from the others when it is not.
C8_NotFoundOrCast ==
    [][\A r \in Slots :
        (req[r].op \in WithId /\ req[r].pc \in Lookup /\ Moved(r)
                /\ ~Exists(req[r].id))
            => /\ req'[r].pc = "done"
               /\ sweets' = sweets /\ nextId' = nextId
               /\ IF req[r].id # MalformedId
                  THEN req'[r].status = 404 /\ req'[r].res.error = "Sweet not found"
                  ELSE req'[r].status = (IF req[r].op = "updateSweets" THEN 400 ELSE 500)
    ]_vars

\* C8 witness: a remove of an ObjectId with no item, answered 404, while the
\* store holds an item.
C8_Witness ==
    \E r \in Slots :
        /\ Done(r) /\ req[r].op = "removeSweets" /\ req[r].status = 404
        /\ \E id \in Ids : Exists(id)

\* A purchase of an id that is no ObjectId, answered 500.
C8_MalformedAnswered ==
    \E r \in Slots :
        /\ Done(r) /\ req[r].op = "purchaseSweets" /\ req[r].id = MalformedId
        /\ req[r].status = 500

UniqueEmails ==
    \A i, j \in 1..Len(users) : users[i].email = users[j].email => i = j

\* C9: no two stored users share an email, whatever the interleaving of
\* register calls; a register call that finds its email stored, at its lookup
\* or at its save, is answered 400 and creates no user.
C9_EmailUnique ==
    [][/\ UniqueEmails'
       /\ \A r \in Slots :
            (req[r].op = "register" /\ req[r].pc \in {"findOne", "save"} /\ Moved(r)
                    /\ DuplicateKey(users, Val(req[r].body.email)))
                => /\ req'[r].pc = "done" /\ req'[r].status = 400
                   /\ users' = users
    ]_vars

\* C9 witness: a register call that passed its lookup and was refused at its
\* save, because another call stored the same email in between.
C9_Witness ==
    \E r \in Slots :
        /\ Done(r) /\ req[r].op = "register" /\ req[r].status = 400
        /\ IsSome(req[r].local)
        /\ UserValid(Val(req[r].local))
        /\ DuplicateKey(users, Val(req[r].body.email))

\* C10: login answers 200 with a token exactly when a user with the email is
\* stored and the password matches its hash; the token is signed with the
\* secret and carries that user's id and stored role; otherwise the answer is
\* 401 and carries no token.
C10_LoginToken ==
    \A r \in Slots : (Done(r) /\ req[r].op = "login") =>
        LET q == req[r]
            match == { i \in 1..Len(users) :
                         /\ users[i].email = q.body.email
                         /\ users[i].password = Hash(q.body.password) }
        IN  IF match # {}
            THEN /\ q.status = 200
                 /\ Len(q.res.data) = 1
                 /\ \E i \in match :
                        q.res.data[1].payload = [id |-> users[i]._id, role |-> users[i].role]
                 /\ verify(q.res.data[1], JWT_SECRET, q.now)
            ELSE q.status = 401 /\ q.res.data = <<>>

\* C10 witness: a login answered with an admin's token while another user is
\* stored too.
C10_Witness ==
    \E r \in Slots :
        /\ Done(r) /\ req[r].op = "login" /\ req[r].status = 200
        /\ req[r].res.data[1].payload.role = "admin"
        /\ Len(users) = 2

\* An id the store handed out whose item is gone: ids are never handed out twice.
Removed(id) == id \in Ids /\ id < nextId /\ ~IsSome(sweets[id])
Listed(data, id) == \E k \in 1..Len(data) : data[k]._id = id

\* C11: a remove answered 200 deletes the addressed item, which existed, and
\* leaves every other item as it was; from then on the item stays gone, no
\* list or search result holds it, and a remove of the same id is answered
\* 404 and changes nothing.
C11_RemoveDeletes ==
    [][\A r \in Slots :
        /\ (At(r, "removeSweets", "findByIdAndDelete") /\ Moved(r) /\ req'[r].status = 200)
            => /\ Exists(req[r].id)
               /\ Removed(req[r].id)'
               /\ \A i \in Ids \ {req[r].id} : sweets'[i] = sweets[i]
        /\ \A id \in Ids : Removed(id) =>
               /\ Removed(id)'
               /\ (req[r].pc = "find" /\ Moved(r)) => ~Listed(req'[r].res.data, id)
               /\ (At(r, "removeSweets", "findByIdAndDelete") /\ Moved(r) /\ req[r].id = id)
                    => /\ req'[r].status = 404 /\ req'[r].res.error = "Sweet not found"
                       /\ sweets' = sweets
    ]_vars

\* C11 witness: a second remove of a removed id, answered 404, while the other
\* stocked item is still stored as it was.
C11_Witness ==
    \E r \in Slots :
        /\ Done(r) /\ req[r].op = "removeSweets" /\ req[r].status = 404
        /\ Removed(req[r].id)
        /\ \E i \in (1 - Seeded)..0 : i # req[r].id /\ sweets[i] = Some(Catalogue[i + Seeded])

\* C12: an update answered 200 sets each field the body carries to the body's
\* value, keeps the item's other fields, leaves every other item and the id
\* counter as they were, and returns the item as it is stored after the update.
C12_UpdateSetsSupplied ==
    [][\A r \in Slots :
        (At(r, "updateSweets", "findByIdAndUpdate") /\ Moved(r) /\ req'[r].status = 200)
            => LET id == req[r].id
                   b == req[r].body
                   old == Val(sweets[id])
                   new == Val(sweets'[id])
               IN  /\ Exists(id) /\ IsSome(sweets'[id])
                   /\ new.name = (IF b.name = None THEN old.name ELSE Val(b.name))
                   /\ new.category = (IF b.category = None THEN old.category ELSE Val(b.category))
                   /\ new.price = (IF b.price = None THEN old.price ELSE Val(b.price))
                   /\ new.quantity = (IF b.quantity = None THEN old.quantity ELSE Val(b.quantity))
                   /\ \A i \in Ids \ {id} : sweets'[i] = sweets[i]
                   /\ nextId' = nextId
                   /\ req'[r].res.data =
                        <<[_id |-> id, name |-> new.name, category |-> new.category,
                           price |-> new.price, quantity |-> new.quantity]>>
    ]_vars

\* C12 witness: an update of name and price on the second stocked item,
\* answered with the stored item: category and quantity kept, the first
\* stocked item untouched.
C12_Witness ==
    \E r \in Slots :
        /\ Done(r) /\ req[r].op = "updateSweets" /\ req[r].status = 200
        /\ req[r].id = 0 /\ req[r].body.name = Some(Kaju) /\ req[r].body.price = Some(7)
        /\ sweets[0] = Some([name |-> Kaju, category |-> "Candy", price |-> 7, quantity |-> 0])
        /\ req[r].res.data[1].name = Kaju
        /\ sweets[-1] = Some(Catalogue[1])

LacksRequired(b) ==
    \/ b.name = None \/ b.category = None \/ b.price = None
    \/ Val(b.price) < 0

\* C13: an add whose body lacks name, category or price, or has price < 0, is
\* answered 400 and leaves the store and the id counter as they were; any
\* other add (quantity omitted or >= 0) is answered 201 and stores one new
\* item with the body's name, category and price and the body's quantity, 0
\* when the body has none, every other item staying as it was; the answer is
\* the stored item.
C13_AddValidates ==
    [][\A r \in Slots :
        (At(r, "addSweets", "save") /\ Moved(r)) =>
            LET b == req[r].body
            IN  IF LacksRequired(b)
                THEN /\ req'[r].pc = "done" /\ req'[r].status = 400
                     /\ sweets' = sweets /\ nextId' = nextId
                ELSE (b.quantity = None \/ Val(b.quantity) >= 0) =>
                     LET new == [name |-> Val(b.name), category |-> Val(b.category),
                                 price |-> Val(b.price),
                                 quantity |-> IF b.quantity = None THEN 0 ELSE Val(b.quantity)]
                     IN  /\ req'[r].pc = "done" /\ req'[r].status = 201
                         /\ ~Exists(nextId)
                         /\ sweets' = [sweets EXCEPT ![nextId] = Some(new)]
                         /\ nextId' = nextId + 1
                         /\ req'[r].res.data =
                              <<[_id |-> nextId, name |-> new.name, category |-> new.category,
                                 price |-> new.price, quantity |-> new.quantity]>>
    ]_vars

\* C13 witness: an add without a quantity, answered 201, stored with quantity
\* 0 next to the stocked items.
C13_Witness ==
    \E r \in Slots :
        /\ Done(r) /\ req[r].op = "addSweets" /\ req[r].status = 201
        /\ req[r].body.quantity = None
        /\ sweets[1] = Some([name |-> Fudge, category |-> "Choco", price |-> 5, quantity |-> 0])
        /\ sweets[0] = Some(Catalogue[2])

\* C13 second case reached: an add without a name, answered 400, the stocked
\* items still stored and nothing added.
C13_Rejected ==
    \E r \in Slots :
        /\ Done(r) /\ req[r].op = "addSweets" /\ req[r].status = 400
        /\ req[r].body.name = None
        /\ nextId = 1 /\ sweets[0] = Some(Catalogue[2])

\* text contains part, compared without regard to case.
HasText(text, part) ==
    \E k \in 0..(Len(text) - Len(part)) :
        \A i \in 1..Len(part) : ToLower(text[k + i]) = ToLower(part[i])
\* The item satisfies every filter the query supplies.
Satisfies(d, q) ==
    /\ (q.name # <<>> => HasText(d.name, q.name))
    /\ (q.category # "" => d.category = q.category)
    /\ (q.minPrice # <<>> => d.price >= Number(q.minPrice))
    /\ (q.maxPrice # <<>> => d.price <= Number(q.maxPrice))
SearchAnswer(r) ==
    /\ req'[r].pc = "done" /\ req'[r].status = 200
    /\ req'[r].res.data = SelectSeq(FindAll(sweets), LAMBDA d : Satisfies(d, req[r].body))
    /\ sweets' = sweets /\ nextId' = nextId
PlainText(t) == \A i \in 1..Len(t) : t[i] # "."

\* C14: a search is answered 200 with exactly the stored items that satisfy
\* every supplied filter (name contained without regard to case, category
\* equal, minPrice <= price <= maxPrice), every item when no filter is
\* supplied, and changes nothing.  (Violated: the name is used as a regular
\* expression, so the name '.' returns every item although no stored name
\* contains a '.'.)
C14_SearchExact ==
    [][\A r \in Slots :
        (At(r, "searchSweets", "find") /\ Moved(r)) => SearchAnswer(r)
    ]_vars

\* The same for names without pattern characters: this much of C14 holds,
\* for every query tried, the bounds 0 included.
C14_SearchExactPlainNames ==
    [][\A r \in Slots :
        (At(r, "searchSweets", "find") /\ Moved(r) /\ PlainText(req[r].body.name))
            => SearchAnswer(r)
    ]_vars

\* Every slot holds a purchase that read quantity 1 (its own copy now says
\* 0), passed the stock check, saved and was answered 200.
BothSoldLast ==
    \A r \in Slots :
        /\ Done(r) /\ req[r].op = "purchaseSweets" /\ req[r].status = 200
        /\ Val(req[r].local).quantity = 0

\* C15 as claimed: after two overlapping purchases that both read quantity 1
\* and both succeeded, the stored quantity is -1.
C15_RaceStoresMinusOne ==
    BothSoldLast => Quantity(1) = -1

\* C15 amended: two overlapping purchases can both read quantity 1, both pass
\* the stock check and both be answered 200; each saves the quantity of its
\* own copy, so the stored quantity is then 0 and both report currentStock 0;
\* purchases and restocks never store a quantity below 0.
C15_RaceStoresZero ==
    /\ \A id \in Ids : Exists(id) => Quantity(id) >= 0
    /\ BothSoldLast =>
           /\ Quantity(1) = 0
           /\ \A r \in Slots : req[r].res.data = <<0>>

\* C15 witness: both purchases answered 200 with currentStock 0, one item
\* having been in stock.
C15_Witness ==
    BothSoldLast /\ Quantity(1) = 0

StoreAccess == {"find", "findById", "save", "findByIdAndUpdate", "findByIdAndDelete"}

\* C16: on every inventory route authenticate is called first and once;
\* isAdmin is called only second and only on a request whose token was
\* verified and whose identity is attached; the controller is called last,
\* only with the verified token's identity attached and, on add, update,
\* remove and restock, only after isAdmin was called and the role is admin;
\* a request stands at a store call, or holds a document it read, only after
\* its controller was called.
C16_GateBeforeService ==
    \A r \in Slots : req[r].op \in SweetOps =>
        LET q == req[r]
            t == q.trail
        IN  /\ t # <<>> /\ t[1] = "authenticate"
            /\ \A k \in 1..Len(t) :
                 /\ t[k] = "authenticate" => k = 1
                 /\ t[k] = "isAdmin" => k = 2 /\ IsSome(q.user) /\ ValidToken(q)
                 /\ t[k] = q.op =>
                      /\ k = Len(t) /\ IsSome(q.user) /\ ValidToken(q)
                      /\ Val(q.user) = TokenOf(q).payload
                      /\ q.op \in AdminOnly =>
                           k = 3 /\ t[2] = "isAdmin" /\ Val(q.user).role = "admin"
            /\ (q.pc \in StoreAccess \/ IsSome(q.local)) => t[Len(t)] = q.op

\* C16 witness: a remove standing at its store call after authenticate and
\* isAdmin were called, in that order, for an admin.
C16_Witness ==
    \E r \in Slots :
        /\ req[r].pc = "findByIdAndDelete"
        /\ req[r].trail = <<"authenticate", "isAdmin", "removeSweets">>
        /\ Val(req[r].user).role = "admin"

\* C16, the gate closing: a non-admin's add stopped by isAdmin, the controller
\* never called.
C16_Stopped ==
    \E r \in Slots :
        /\ Done(r) /\ req[r].op = "addSweets" /\ req[r].status = 403
        /\ req[r].trail = <<"authenticate", "isAdmin">>

====
